---- MODULE Spec2Model ----
(***************************************************************************)
(* The extraction and classification pipeline of server/app.py:            *)
(* analyze_pdf from the moment the statement text is available (line 272), *)
(* extract_transactions_with_ai and classify_with_gpt.                     *)
(*                                                                         *)
(* Strings are sequences of one-character strings.  A line of the          *)
(* statement is a record [txt, pad]: the characters txt followed by pad    *)
(* copies of the filler character "0", so that statements of more than     *)
(* max_chars * max_chunks characters stay small values.  A text is the     *)
(* sequence of its lines, i.e. the lines joined by "\n".                   *)
(*                                                                         *)
(* The OpenAI client is the environment: every call returns one reply      *)
(* drawn from a pool (an exception, or a message content).                 *)
(***************************************************************************)
EXTENDS Integers, Sequences, FiniteSets, TLC

\* ------------------------------------------------------------------
\* Bounds of the model
\* ------------------------------------------------------------------

\* most raw transaction values accumulated over one run
MaxRaw == 2
\* longest list in one reply of the extraction oracle
MaxReplyLen == 1
\* most statement lines that follow the end-marker line in the long statements
MaxTail == 1
\* longest raw string / list fed to the deduplicator on its own
MaxStrLen == 2
MaxListLen == 2
\* the chunk planner on its own is fed every length within Slack of a
\* multiple of max_chars, up to ExtraChunks chunks past max_chunks
Slack == 4
ExtraChunks == 2

\* ------------------------------------------------------------------
\* Program constants
\* ------------------------------------------------------------------

max_chars == 12000
max_chunks == 10
\* len(transaction_section) > 50
MinSectionLines == 50
\* len(pdf_text) < 50
MinTextLen == 50

\* ------------------------------------------------------------------
\* Python strings
\* ------------------------------------------------------------------

Uppers ==
    <<"A", "B", "C", "D", "E", "F", "G", "H", "I", "J", "K", "L", "M",
      "N", "O", "P", "Q", "R", "S", "T", "U", "V", "W", "X", "Y", "Z">>

Lowers ==
    <<"a", "b", "c", "d", "e", "f", "g", "h", "i", "j", "k", "l", "m",
      "n", "o", "p", "q", "r", "s", "t", "u", "v", "w", "x", "y", "z">>

Min(a, b) == IF a <= b THEN a ELSE b

lower_char(c) ==
    IF \E i \in 1..26 : Uppers[i] = c
      THEN Lowers[CHOOSE i \in 1..26 : Uppers[i] = c]
      ELSE c

\* str.lower()
lower(s) == [i \in 1..Len(s) |-> lower_char(s[i])]

IsSpace(c) == c \in {" ", "\t", "\n"}

\* str.strip(): drop leading and trailing whitespace
strip(s) ==
    LET keep == {i \in 1..Len(s) : ~IsSpace(s[i])}
    IN  IF keep = {} THEN <<>>
        ELSE LET lo == CHOOSE i \in keep : \A j \in keep : i <= j
                 hi == CHOOSE i \in keep : \A j \in keep : i >= j
             IN  SubSeq(s, lo, hi)

\* str.startswith(prefix)
startswith(s, prefix) ==
    /\ Len(prefix) <= Len(s)
    /\ \A i \in 1..Len(prefix) : s[i] = prefix[i]

\* `sub in s` for two strings
Contains(sub, s) ==
    \E k \in 0..(Len(s) - Len(sub)) : \A j \in 1..Len(sub) : s[k + j] = sub[j]

\* ------------------------------------------------------------------
\* Lines and texts
\* ------------------------------------------------------------------

Ln(txt) == [txt |-> txt, pad |-> 0]
Padded(txt, n) == [txt |-> txt, pad |-> n]
Rep(l, n) == [i \in 1..n |-> l]
Fill(n) == [i \in 1..n |-> "0"]

LineLen(l) == Len(l.txt) + l.pad

\* line.lower(); the filler "0" has no case
line_lower(l) == [txt |-> lower(l.txt), pad |-> l.pad]

\* `sub in line`: a match that lies past the first Len(sub) filler
\* characters lies wholly in the filler and also matches at its start
InLine(sub, l) == Contains(sub, l.txt \o Fill(Min(l.pad, Len(sub))))

RECURSIVE SumLen(_)
SumLen(ls) == IF ls = <<>> THEN 0 ELSE LineLen(Head(ls)) + SumLen(Tail(ls))

\* len('\n'.join(ls))
TextLen(ls) == IF ls = <<>> THEN 0 ELSE SumLen(ls) + Len(ls) - 1

kw_transactions == <<"t", "r", "a", "n", "s", "a", "c", "t", "i", "o", "n", "s">>
kw_activity == <<"a", "c", "t", "i", "v", "i", "t", "y">>
kw_details == <<"d", "e", "t", "a", "i", "l", "s">>
kw_purchases == <<"p", "u", "r", "c", "h", "a", "s", "e", "s">>
mk_interest ==
    <<"i", "n", "t", "e", "r", "e", "s", "t", " ",
      "i", "n", "f", "o", "r", "m", "a", "t", "i", "o", "n">>
mk_important ==
    <<"i", "m", "p", "o", "r", "t", "a", "n", "t", " ",
      "i", "n", "f", "o", "r", "m", "a", "t", "i", "o", "n">>
mk_errors ==
    <<"i", "n", " ", "c", "a", "s", "e", " ", "o", "f", " ",
      "e", "r", "r", "o", "r", "s">>
s_expected == <<"e", "x", "p", "e", "c", "t", "e", "d">>

EndMarkers == {mk_interest, mk_important, mk_errors}

\* ------------------------------------------------------------------
\* Python / JSON values
\* ------------------------------------------------------------------

\* a str
Str(s) == [t |-> "str", s |-> s]
\* a value that is not a str (a JSON number)
Num == [t |-> "int", s |-> <<>>]

\* the value bound to section_keywords: a list of values, or None
KwList(items) == [ty |-> "list", items |-> items]
KwNone == [ty |-> "null", items |-> <<>>]

DefaultKeywords ==
    KwList(<<Str(kw_transactions), Str(kw_activity), Str(kw_details), Str(kw_purchases)>>)

\* ------------------------------------------------------------------
\* Replies of the oracle (client.chat.completions.create)
\* ------------------------------------------------------------------

\* A reply is an exception (raised) or a message content: a JSON text
\* (body), bare or wrapped in a ```json or a plain ``` fence.
NoReply == [call |-> "none", raised |-> FALSE, fence |-> "none"]

IdObject(kw) == [ty |-> "object", has_kw |-> TRUE, kw |-> kw]
IdObjectNoKeywords == [ty |-> "object", has_kw |-> FALSE, kw |-> KwNone]
IdArray == [ty |-> "array", has_kw |-> FALSE, kw |-> KwNone]
IdNotJson == [ty |-> "invalid", has_kw |-> FALSE, kw |-> KwNone]

IdReply(raised, fence, body) ==
    [call |-> "identify", raised |-> raised, fence |-> fence, body |-> body]

K_Transactions == <<"T", "r", "a", "n", "s", "a", "c", "t", "i", "o", "n", "s">>

IdReplies ==
    { IdReply(TRUE, "none", IdNotJson),
      IdReply(FALSE, "none", IdNotJson),
      IdReply(FALSE, "none", IdArray),
      IdReply(FALSE, "plain", IdObject(KwList(<<Str(kw_activity)>>))),
      IdReply(FALSE, "json", IdObject(KwList(<<Str(kw_transactions)>>))),
      IdReply(FALSE, "none", IdObject(KwList(<<Str(K_Transactions)>>))),
      IdReply(FALSE, "none", IdObject(KwList(<<Str(kw_activity), Num>>))),
      IdReply(FALSE, "none", IdObject(KwNone)),
      IdReply(FALSE, "none", IdObjectNoKeywords) }

ExList(items) == [ty |-> "list", items |-> items]
ExObject == [ty |-> "object", items |-> <<>>]
ExNotJson == [ty |-> "invalid", items |-> <<>>]

ExReply(raised, fence, body) ==
    [call |-> "extract", raised |-> raised, fence |-> fence, body |-> body]

\* raw transaction values the extraction oracle may return
RawItems ==
    { Str(<<"a">>), Str(<<" ", "a", " ">>), Str(<<"A">>), Str(<<" ">>),
      Num }

ListsUpTo(S, n) == UNION {[1..k -> S] : k \in 0..n}

ExReplies ==
    { ExReply(TRUE, "none", ExNotJson),
      ExReply(FALSE, "none", ExNotJson),
      ExReply(FALSE, "json", ExObject),
      ExReply(FALSE, "plain", ExList(<<Str(<<"a">>)>>)) }
    \cup {ExReply(FALSE, "none", ExList(l)) : l \in ListsUpTo(RawItems, MaxReplyLen)}

ClReply(raised, content) ==
    [call |-> "classify", raised |-> raised, fence |-> "none", content |-> content]

R_Expected == <<"E", "x", "p", "e", "c", "t", "e", "d">>
R_expected_long == <<"e", "x", "p", "e", "c", "t", "e", "d", ",", " ", "o", "k">>
R_EXPECTED_sp == <<" ", "E", "X", "P", "E", "C", "T", "E", "D", " ">>
R_Unexpected == <<"U", "n", "e", "x", "p", "e", "c", "t", "e", "d">>
R_unsure == <<"u", "n", "s", "u", "r", "e">>

ClReplies ==
    {ClReply(TRUE, <<>>)}
    \cup {ClReply(FALSE, c) :
            c \in {R_Expected, R_expected_long, R_EXPECTED_sp, R_Unexpected,
                   R_unsure}}

\* ------------------------------------------------------------------
\* Statements (the text returned by extract_text_from_pdf, split in lines)
\* ------------------------------------------------------------------

L_header == <<"S", "t", "a", "t", "e", "m", "e", "n", "t">>
L_Transactions == <<"T", "r", "a", "n", "s", "a", "c", "t", "i", "o", "n", "s">>
L_activity ==
    <<"A", "c", "c", "o", "u", "n", "t", " ", "A", "c", "t", "i", "v", "i", "t", "y">>
L_plain ==
    <<"S", "e", "p", " ", "9", " ", "L", "O", "N", "D", "O", "N", " ",
      "D", "R", "U", "G", "S", " ", "2", "7", ".", "6", "3">>
L_marker ==
    <<"I", "m", "p", "o", "r", "t", "a", "n", "t", " ",
      "I", "n", "f", "o", "r", "m", "a", "t", "i", "o", "n">>

DocEmpty == <<Ln(<<>>)>>
DocShort == <<Ln(L_plain)>>
DocPlain == Rep(Ln(L_plain), 3)
DocActivity ==
    <<Ln(L_header), Ln(L_activity), Ln(L_plain), Ln(L_marker), Ln(L_plain)>>
\* a keyword line, body lines, an end-marker line, tail lines
DocLong(body, tail) ==
    <<Ln(L_Transactions)>> \o Rep(Ln(L_plain), body) \o <<Ln(L_marker)>>
        \o Rep(Ln(L_plain), tail)
\* a long header, then a keyword line and one transaction line of more
\* than max_chars characters; over characters in all past the chunk ceiling
DocBig(over) ==
    LET rest == <<Ln(L_Transactions), Padded(L_plain, max_chars)>>
        pad == max_chars * max_chunks + over - (TextLen(rest) + Len(L_header) + 1)
    IN  <<Padded(L_header, pad)>> \o rest

Docs ==
    {DocEmpty, DocShort, DocPlain, DocActivity}
    \cup {DocLong(MinSectionLines, t) : t \in 0..MaxTail}
    \cup {DocLong(MinSectionLines - 1, 1), DocBig(1)}

\* ------------------------------------------------------------------
\* State
\* ------------------------------------------------------------------

VARIABLES
    lines,                    \* pdf_text.split('\n')
    stage,                    \* where the run stands
    response,                 \* what analyze_pdf returned (status 0: nothing yet)
    oracle_reply,             \* the reply to the latest oracle call
    section_keywords,
    line_no,                  \* lines of the scan loop already handled
    in_transaction_section,
    transaction_section,      \* the collected lines, by their number
    relevant_text,            \* the lines whose join is relevant_text
    text_chunks,              \* each chunk as relevant_text[lo:hi]
    calls,                    \* the chunks sent to the extraction oracle, in order
    chunk_no,                 \* chunks of the extraction loop already handled
    not_arrays,               \* extraction calls that raised or did not reply a JSON array
    all_transactions,
    unique_transactions,
    txn_no,                   \* transactions of the classification loop already handled
    expected,
    unexpected

vars ==
    <<lines, stage, response, oracle_reply, section_keywords, line_no,
      in_transaction_section, transaction_section, relevant_text, text_chunks,
      calls, chunk_no, not_arrays, all_transactions, unique_transactions, txn_no,
      expected, unexpected>>

NoResponse ==
    [status |-> 0, error |-> "", success |-> FALSE, totalTransactions |-> 0,
     expected |-> <<>>, unexpected |-> <<>>]

ErrorResponse(status, error) == [NoResponse EXCEPT !.status = status, !.error = error]

ExtractionFailed == ErrorResponse(400, "Could not extract text from PDF")
NoTransactionsFound ==
    ErrorResponse(400,
        "No transactions found in PDF. Please ensure the PDF contains transaction details.")
\* the handler of line 320: any exception raised in the run
FailedToAnalyze == ErrorResponse(500, "Failed to analyze PDF")

Running == response.status = 0

\* ------------------------------------------------------------------
\* extract_transactions_with_ai, step 1: the section keywords
\* ------------------------------------------------------------------

\* Lines 70-78: the content is stripped, a ```json fence (and no other) is
\* removed, the text is parsed and section_keywords is read with a default
\* of []; any exception on the way gives the default keywords.
identify_keywords(reply) ==
    IF reply.raised \/ reply.fence = "plain" \/ reply.body.ty # "object"
      THEN DefaultKeywords
      ELSE IF reply.body.has_kw THEN reply.body.kw ELSE KwList(<<>>)

\* ------------------------------------------------------------------
\* Step 2: the scan of the lines
\* ------------------------------------------------------------------

\* any(keyword in line_lower for keyword in section_keywords): "True",
\* "False", or "TypeError" when section_keywords is not iterable or the
\* first keyword that is not a miss is not a str
AnyKeyword(keywords, ll) ==
    IF keywords.ty # "list" THEN "TypeError"
    ELSE LET items == keywords.items
             stop == {k \in 1..Len(items) :
                        items[k].t # "str" \/ InLine(items[k].s, ll)}
         IN  IF stop = {} THEN "False"
             ELSE LET k == CHOOSE i \in stop : \A j \in stop : i <= j
                  IN  IF items[k].t # "str" THEN "TypeError" ELSE "True"

\* any(marker in line_lower for marker in [...])
AnyMarker(ll) == \E m \in EndMarkers : InLine(m, ll)

\* Lines 92-100: transaction_section after line number n, with the flag as
\* updated by this line
Collected(section, flag, n, ll) ==
    IF AnyMarker(ll) /\ flag /\ Len(section) > MinSectionLines
      THEN Append(section, n)
      ELSE IF flag THEN Append(section, n) ELSE section

\* ------------------------------------------------------------------
\* Step 3: the chunks
\* ------------------------------------------------------------------

\* Line 103
RelevantText(section, ls) ==
    IF section # <<>> THEN [j \in 1..Len(section) |-> ls[section[j]]] ELSE ls

\* Line 109: [relevant_text[i:i+max_chars] for i in range(0, n, max_chars)]
Chunks(n) ==
    [c \in 1..((n + max_chars - 1) \div max_chars) |->
        [lo |-> (c - 1) * max_chars, hi |-> Min(c * max_chars, n)]]

\* text_chunks, without the slice
Truncated_NoCeiling(chunks) == chunks

\* Line 114: text_chunks[:max_chunks]
Truncated(chunks) == SubSeq(chunks, 1, Min(Len(chunks), max_chunks))

\* Lines 155-165: what one reply adds to all_transactions; err when the
\* call or the parse raised (both kinds of fence are removed first), array
\* when the parsed value is a list
ParseExtract(reply) ==
    IF reply.raised \/ reply.body.ty = "invalid"
      THEN [err |-> TRUE, array |-> FALSE, items |-> <<>>]
      ELSE IF reply.body.ty = "list"
             THEN [err |-> FALSE, array |-> TRUE, items |-> reply.body.items]
             ELSE [err |-> FALSE, array |-> FALSE, items |-> <<>>]

\* break in place of continue
AfterChunkError_Break(n, emitted) == Len(emitted)

\* Lines 167-169: the loop position after an exception in chunk number n
\* (continue)
AfterChunkError(n, emitted) == n

\* Line 172: set([t.strip() for t in all_transactions if t.strip()])
Stripped(all) == {strip(all[i].s) : i \in {j \in 1..Len(all) : strip(all[j].s) # <<>>}}

\* list(set(...)): the elements once each, in an order Python does not fix
Orders(S) ==
    {f \in [1..Cardinality(S) -> S] : \A i, j \in 1..Cardinality(S) : f[i] = f[j] => i = j}

\* the list comprehension alone, without set()
Deduplicated_NoSet(all) ==
    LET kept == SelectSeq(all, LAMBDA t : strip(t.s) # <<>>)
    IN  {[i \in 1..Len(kept) |-> strip(kept[i].s)]}

\* the comprehension without strip() on the kept value
Deduplicated_NoStrip(all) ==
    Orders({all[i].s : i \in {j \in 1..Len(all) : strip(all[j].s) # <<>>}})

Deduplicated(all) == Orders(Stripped(all))

\* ------------------------------------------------------------------
\* classify_with_gpt and the test of line 293
\* ------------------------------------------------------------------

S_Unexpected == <<"U", "n", "e", "x", "p", "e", "c", "t", "e", "d">>

\* a handler that returns "Expected"
classify_with_gpt_FailOpen(reply) ==
    IF reply.raised THEN s_expected ELSE strip(reply.content)

classify_with_gpt(reply) ==
    IF reply.raised THEN S_Unexpected ELSE strip(reply.content)

\* result.lower().startswith("expected")
IsExpected(result) == startswith(lower(result), s_expected)

Entry(transaction, classification) ==
    [transaction |-> transaction, classification |-> classification]

\* the test of line 282 left out
NoneFound_Never(transactions) == FALSE

\* Line 282
NoneFound(transactions) == Len(transactions) = 0

\* ------------------------------------------------------------------
\* The run
\* ------------------------------------------------------------------

InitWith(ls, st) ==
    /\ lines = ls
    /\ stage = st
    /\ response = NoResponse
    /\ oracle_reply = NoReply
    /\ section_keywords = KwList(<<>>)
    /\ line_no = 0
    /\ in_transaction_section = FALSE
    /\ transaction_section = <<>>
    /\ relevant_text = <<>>
    /\ text_chunks = <<>>
    /\ calls = <<>>
    /\ chunk_no = 0
    /\ not_arrays = 0
    /\ all_transactions = <<>>
    /\ unique_transactions = <<>>
    /\ txn_no = 0
    /\ expected = <<>>
    /\ unexpected = <<>>

\* A request whose file passed the upload checks; its text has been extracted.
Init == \E d \in Docs : InitWith(d, "check_text")

scan_vars == <<line_no, in_transaction_section, transaction_section>>
plan_vars == <<relevant_text, text_chunks>>
extract_vars == <<calls, chunk_no, not_arrays, all_transactions>>
classify_vars == <<unique_transactions, txn_no, expected, unexpected>>

\* Lines 275-277
CheckText ==
    /\ stage = "check_text" /\ Running
    /\ IF TextLen(lines) = 0 \/ TextLen(lines) < MinTextLen
         THEN response' = ExtractionFailed /\ stage' = stage
         ELSE response' = response /\ stage' = "identify"
    /\ UNCHANGED <<lines, oracle_reply, section_keywords, scan_vars, plan_vars,
                   extract_vars, classify_vars>>

\* Lines 59-78
Identify(reply) ==
    /\ stage = "identify" /\ Running
    /\ oracle_reply' = reply
    /\ section_keywords' = identify_keywords(reply)
    /\ stage' = "scan"
    /\ UNCHANGED <<lines, response, scan_vars, plan_vars, extract_vars, classify_vars>>

\* Lines 85-100, one line of the loop; a TypeError leaves the function and
\* is answered by the handler of line 320
ScanLine ==
    /\ stage = "scan" /\ Running /\ line_no < Len(lines)
    /\ LET n == line_no + 1
           ll == line_lower(lines[n])
           hit == AnyKeyword(section_keywords, ll)
           flag == in_transaction_section \/ hit = "True"
       IN  IF hit = "TypeError"
             THEN /\ response' = FailedToAnalyze
                  /\ UNCHANGED scan_vars
             ELSE /\ response' = response
                  /\ in_transaction_section' = flag
                  /\ transaction_section' = Collected(transaction_section, flag, n, ll)
                  /\ line_no' = n
    /\ UNCHANGED <<lines, stage, oracle_reply, section_keywords, plan_vars,
                   extract_vars, classify_vars>>

\* Lines 103-112
PlanChunks ==
    /\ stage = "scan" /\ Running /\ line_no = Len(lines)
    /\ relevant_text' = RelevantText(transaction_section, lines)
    /\ text_chunks' = Chunks(TextLen(relevant_text'))
    /\ stage' = "extract"
    /\ UNCHANGED <<lines, response, oracle_reply, section_keywords, scan_vars,
                   extract_vars, classify_vars>>

\* Lines 114-169, one chunk of the loop
ExtractChunk(reply) ==
    /\ stage = "extract" /\ Running /\ chunk_no < Len(Truncated(text_chunks))
    /\ LET n == chunk_no + 1
           got == ParseExtract(reply)
       IN  /\ Len(all_transactions) + Len(got.items) <= MaxRaw
           /\ oracle_reply' = reply
           /\ calls' = Append(calls, n)
           /\ all_transactions' = all_transactions \o got.items
           /\ not_arrays' = IF got.array THEN not_arrays ELSE not_arrays + 1
           /\ chunk_no' = IF got.err THEN AfterChunkError(n, Truncated(text_chunks)) ELSE n
    /\ UNCHANGED <<lines, stage, response, section_keywords, scan_vars, plan_vars,
                   classify_vars>>

\* Lines 171-174 and 282-284: t.strip() raises on a value that is not a str.
\* The locals of extract_transactions_with_ai are dead once the
\* classification loop starts; a run that ends here keeps them on view.
Deduplicate ==
    /\ stage = "extract" /\ Running /\ chunk_no = Len(Truncated(text_chunks))
    /\ IF \E i \in 1..Len(all_transactions) : all_transactions[i].t # "str"
         THEN /\ response' = FailedToAnalyze
              /\ UNCHANGED <<stage, section_keywords, scan_vars,
                             plan_vars, extract_vars, unique_transactions>>
         ELSE \E transactions \in Deduplicated(all_transactions) :
                /\ unique_transactions' = transactions
                /\ IF NoneFound(transactions)
                     THEN /\ response' = NoTransactionsFound
                          /\ UNCHANGED <<stage, section_keywords,
                                         scan_vars, plan_vars, extract_vars>>
                     ELSE /\ response' = response
                          /\ stage' = "classify"
                          /\ section_keywords' = KwList(<<>>)
                          /\ line_no' = 0
                          /\ in_transaction_section' = FALSE
                          /\ transaction_section' = <<>>
                          /\ relevant_text' = <<>>
                          /\ text_chunks' = <<>>
                          /\ calls' = <<>>
                          /\ chunk_no' = 0
                          /\ not_arrays' = 0
                          /\ all_transactions' = <<>>
    /\ UNCHANGED <<lines, oracle_reply, txn_no, expected, unexpected>>

\* Lines 290-302, one transaction of the loop
Classify(reply) ==
    /\ stage = "classify" /\ Running /\ txn_no < Len(unique_transactions)
    /\ LET transaction == unique_transactions[txn_no + 1]
           result == classify_with_gpt(reply)
       IN  /\ oracle_reply' = reply
           /\ IF IsExpected(result)
                THEN /\ expected' = Append(expected, Entry(transaction, "Expected"))
                     /\ unexpected' = unexpected
                ELSE /\ unexpected' = Append(unexpected, Entry(transaction, "Unexpected"))
                     /\ expected' = expected
           /\ txn_no' = txn_no + 1
    /\ UNCHANGED <<lines, stage, response, section_keywords, scan_vars, plan_vars,
                   extract_vars, unique_transactions>>

\* Lines 307-312
Respond ==
    /\ stage = "classify" /\ Running /\ txn_no = Len(unique_transactions)
    /\ response' = [status |-> 200, error |-> "", success |-> TRUE,
                    totalTransactions |-> Len(unique_transactions),
                    expected |-> expected, unexpected |-> unexpected]
    /\ UNCHANGED <<lines, stage, oracle_reply, section_keywords, scan_vars,
                   plan_vars, extract_vars, classify_vars>>

Next ==
    \/ CheckText
    \/ \E reply \in IdReplies : Identify(reply)
    \/ ScanLine
    \/ PlanChunks
    \/ \E reply \in ExReplies : ExtractChunk(reply)
    \/ Deduplicate
    \/ \E reply \in ClReplies : Classify(reply)
    \/ Respond

Spec == Init /\ [][Next]_vars

\* ------------------------------------------------------------------
\* The chunk planner and the extraction loop on their own: the function
\* has scanned a one-line text of n characters that holds no keyword, and
\* every extraction call raises.
\* ------------------------------------------------------------------

PlannerLens ==
    {n \in {k * max_chars + d : k \in 0..(max_chunks + ExtraChunks), d \in (-Slack)..Slack} :
        n >= 0}

InitPlanner ==
    \E n \in PlannerLens :
        /\ lines = <<Padded(<<>>, n)>>
        /\ stage = "scan"
        /\ response = NoResponse
        /\ oracle_reply = IdReply(FALSE, "none", IdObjectNoKeywords)
        /\ section_keywords = KwList(<<>>)
        /\ line_no = 1
        /\ in_transaction_section = FALSE
        /\ transaction_section = <<>>
        /\ relevant_text = <<>>
        /\ text_chunks = <<>>
        /\ calls = <<>>
        /\ chunk_no = 0
        /\ not_arrays = 0
        /\ all_transactions = <<>>
        /\ unique_transactions = <<>>
        /\ txn_no = 0
        /\ expected = <<>>
        /\ unexpected = <<>>

NextPlanner ==
    \/ PlanChunks
    \/ ExtractChunk(ExReply(TRUE, "none", ExNotJson))
    \/ Deduplicate

SpecPlanner == InitPlanner /\ [][NextPlanner]_vars

\* ------------------------------------------------------------------
\* The deduplicator on its own: the single chunk of a short statement has
\* been answered with a list of raw strings.
\* ------------------------------------------------------------------

DedupChars == {"a", "A", " "}

RawLists == ListsUpTo({Str(s) : s \in ListsUpTo(DedupChars, MaxStrLen)}, MaxListLen)

InitDedup ==
    \E raw \in RawLists :
        /\ lines = DocPlain
        /\ stage = "extract"
        /\ response = NoResponse
        /\ oracle_reply = ExReply(FALSE, "none", ExList(raw))
        /\ section_keywords = KwList(<<>>)
        /\ line_no = Len(DocPlain)
        /\ in_transaction_section = FALSE
        /\ transaction_section = <<>>
        /\ relevant_text = DocPlain
        /\ text_chunks = Chunks(TextLen(DocPlain))
        /\ calls = <<1>>
        /\ chunk_no = 1
        /\ not_arrays = 0
        /\ all_transactions = raw
        /\ unique_transactions = <<>>
        /\ txn_no = 0
        /\ expected = <<>>
        /\ unexpected = <<>>

NextDedup == Deduplicate

SpecDedup == InitDedup /\ [][NextDedup]_vars

\* ------------------------------------------------------------------
\* Properties
\* ------------------------------------------------------------------

Range(f) == {f[i] : i \in DOMAIN f}

\* how many entries of a result list carry transaction t
Occurrences(entries, t) ==
    Cardinality({i \in 1..Len(entries) : entries[i].transaction = t})

\* C1: in every successful response, each element of the deduplicated
\* transaction list is carried by exactly one entry of expected and
\* unexpected together, and totalTransactions is the sum of their lengths.
C1_Partition ==
    response.success =>
        /\ \A i \in 1..Len(unique_transactions) :
              Occurrences(response.expected, unique_transactions[i])
                + Occurrences(response.unexpected, unique_transactions[i]) = 1
        /\ response.totalTransactions
             = Len(response.expected) + Len(response.unexpected)

C1_Witness ==
    /\ response.success
    /\ Len(response.expected) >= 1
    /\ Len(response.unexpected) >= 1

\* C2: whatever the oracle replies, a run never ends with the generic
\* "Failed to analyze PDF" response: it ends with a success, with
\* NoTransactionsFound or with ExtractionFailed.
C2_NeverFailedToAnalyze ==
    ~Running =>
        \/ response.success
        \/ response = NoTransactionsFound
        \/ response = ExtractionFailed

\* C3: an end-marker line collected when more than MinSectionLines lines
\* were already collected is the last line collected.
C3_StopsAtEndMarker ==
    \A j \in 1..Len(transaction_section) :
        (/\ AnyMarker(line_lower(lines[transaction_section[j]]))
         /\ j - 1 > MinSectionLines)
            => j = Len(transaction_section)

\* what C5 asks of one step of the run
C5_Step ==
    /\ stage' = "extract" =>
          /\ calls' = [k \in 1..Len(calls') |-> k]
          /\ Len(calls') = chunk_no'
          /\ Len(calls') <= max_chunks
          /\ Len(calls') <= Len(text_chunks')
    /\ (stage = "extract" /\ stage' = "extract" /\ calls' # calls) =>
          /\ calls' = Append(calls, chunk_no + 1)
          /\ chunk_no' = chunk_no + 1
          /\ SubSeq(all_transactions', 1, Len(all_transactions)) = all_transactions
          /\ (oracle_reply'.raised \/ oracle_reply'.body.ty # "list")
                => all_transactions' = all_transactions
    /\ (stage = "extract" /\ (stage' # stage \/ response' # response)) =>
          Len(calls) = Min(Len(text_chunks), max_chunks)

\* C5: the chunks are sent to the extraction oracle once each, in index
\* order, at most max_chunks of them; a call that raises or whose reply
\* does not parse adds nothing, keeps what was accumulated, and the loop
\* goes on to the next chunk.
C5_OneCallPerChunk == [][C5_Step]_vars

C5_Witness ==
    /\ stage = "extract"
    /\ Len(text_chunks) > max_chunks
    /\ Len(calls) = max_chunks
    /\ not_arrays >= 1
    /\ oracle_reply.call = "extract" /\ ~oracle_reply.raised
    /\ oracle_reply.body.ty = "list"
    /\ Len(all_transactions) = MaxRaw

\* what C6 asks of one step of the run
C6_Step ==
    /\ (/\ stage = "extract" /\ Running
        /\ chunk_no = Min(Len(text_chunks), max_chunks)
        /\ not_arrays = Len(calls))
          => /\ response' = NoTransactionsFound
             /\ stage' = "extract"
             /\ expected' = <<>> /\ unexpected' = <<>>
    /\ response # NoTransactionsFound

\* C6: when every chunk has been sent and no call returned a JSON array,
\* the next step of the run answers NoTransactionsFound, with nothing
\* classified, and the run is over.
C6_AllFailedIsNoTransactions == [][C6_Step]_vars

C6_Witness ==
    /\ response = NoTransactionsFound
    /\ Len(calls) >= 2
    /\ not_arrays = Len(calls)

\* what C7 asks of one step of the run
C7_Step ==
    (stage = "classify" /\ txn_no' # txn_no) =>
        LET t == unique_transactions[txn_no + 1]
            accepted ==
              /\ ~oracle_reply'.raised
              /\ LET c == oracle_reply'.content
                     first == {i \in 1..Len(c) : ~IsSpace(c[i])}
                 IN  \E i \in first :
                       /\ \A j \in first : i <= j
                       /\ i + Len(s_expected) - 1 <= Len(c)
                       /\ \A k \in 1..Len(s_expected) :
                            lower_char(c[i + k - 1]) = s_expected[k]
        IN  IF accepted
              THEN /\ expected' = Append(expected, Entry(t, "Expected"))
                   /\ unexpected' = unexpected
              ELSE /\ unexpected' = Append(unexpected, Entry(t, "Unexpected"))
                   /\ expected' = expected

\* C7: the transaction classified in a step goes to expected when the call
\* succeeded and its reply, trimmed and lowercased, begins with "expected",
\* and to unexpected otherwise.
C7_ExpectedIffPrefix == [][C7_Step]_vars

C7_Witness ==
    /\ stage = "classify"
    /\ oracle_reply.call = "classify" /\ oracle_reply.raised
    /\ Len(expected) >= 1
    /\ Len(unexpected) >= 1

\* C9: a scanned line that contains a keyword of section_keywords, letter
\* case ignored, has turned the flag on and has been collected.
C9_CaseInsensitiveScan ==
    (stage = "scan" /\ section_keywords.ty = "list") =>
        \A i \in 1..line_no :
            (\E k \in 1..Len(section_keywords.items) :
                /\ section_keywords.items[k].t = "str"
                /\ InLine(lower(section_keywords.items[k].s), line_lower(lines[i])))
              => /\ in_transaction_section
                 /\ i \in Range(transaction_section)

\* C10: after an identification call that raised, or whose reply is not
\* JSON or is a JSON value without a section_keywords list, the scan uses
\* the default keywords.
C10_DefaultKeywords ==
    (/\ stage = "scan"
     /\ oracle_reply.call = "identify"
     /\ \/ oracle_reply.raised
        \/ oracle_reply.body.ty # "object"
        \/ ~oracle_reply.body.has_kw
        \/ oracle_reply.body.kw.ty # "list")
       => section_keywords = DefaultKeywords

\* ------------------------------------------------------------------
\* Properties of the planner on its own
\* ------------------------------------------------------------------

\* the chunks sent to the extraction oracle, in the order sent
Sent == [k \in 1..Len(calls) |-> text_chunks[calls[k]]]

\* C4: the chunks sent are at most max_chunks, of at most max_chars
\* characters each, start at offset 0 and follow one another without gap or
\* overlap; when the run is over they end at offset
\* min(len(relevant_text), max_chunks * max_chars).
C4_ChunksArePrefix ==
    stage = "extract" =>
        /\ Len(Sent) <= max_chunks
        /\ \A k \in 1..Len(Sent) :
              /\ Sent[k].lo < Sent[k].hi
              /\ Sent[k].hi - Sent[k].lo <= max_chars
              /\ Sent[k].hi <= TextLen(relevant_text)
              /\ Sent[k].lo = IF k = 1 THEN 0 ELSE Sent[k - 1].hi
        /\ ~Running =>
              (IF Sent = <<>> THEN 0 ELSE Sent[Len(Sent)].hi)
                 = Min(TextLen(relevant_text), max_chunks * max_chars)

C4_Witness ==
    /\ stage = "extract" /\ ~Running
    /\ TextLen(relevant_text) > max_chunks * max_chars
    /\ Len(Sent) = max_chunks

\* ------------------------------------------------------------------
\* Properties of the deduplicator on its own
\* ------------------------------------------------------------------

Trimmed(s) == s # <<>> /\ ~IsSpace(s[1]) /\ ~IsSpace(s[Len(s)])

\* e is x without its leading and trailing whitespace
IsTrimOf(e, x) ==
    /\ Trimmed(e)
    /\ \E i \in 1..Len(x) :
          /\ i + Len(e) - 1 <= Len(x)
          /\ SubSeq(x, i, i + Len(e) - 1) = e
          /\ \A j \in 1..Len(x) : (j < i \/ j > i + Len(e) - 1) => IsSpace(x[j])

\* what C8 asks of one step of the run
C8_Step ==
    (stage = "extract" /\ (stage' = "classify" \/ response' = NoTransactionsFound)) =>
        LET raw == all_transactions
            out == unique_transactions'
        IN  /\ \A i \in 1..Len(out) : \E j \in 1..Len(raw) : IsTrimOf(out[i], raw[j].s)
            /\ \A j \in 1..Len(raw) :
                  (\E c \in 1..Len(raw[j].s) : ~IsSpace(raw[j].s[c]))
                     => \E i \in 1..Len(out) : IsTrimOf(out[i], raw[j].s)
            /\ \A i, j \in 1..Len(out) : out[i] = out[j] => i = j
            /\ \A again \in Deduplicated([i \in 1..Len(out) |-> Str(out[i])]) :
                  Range(again) = Range(out)

\* C8: the deduplicator's output holds, once each, the trimmed forms of the
\* inputs that are not all whitespace, and nothing else; run on its own
\* output it yields the same set.
C8_DedupIsTrimmedSet == [][C8_Step]_vars

C8_Witness ==
    /\ stage = "classify"
    /\ Len(oracle_reply.body.items) = 2
    /\ oracle_reply.body.items[1] # oracle_reply.body.items[2]
    /\ \A k \in 1..2 : \E c \in 1..Len(oracle_reply.body.items[k].s) :
          ~IsSpace(oracle_reply.body.items[k].s[c])
    /\ Len(unique_transactions) = 1

====
